---- MODULE Spec2Model ----
(***************************************************************************)
(* RGB++ lock / unlock indexer of unistate-ckb (src/src/rgbpp.rs).         *)
(*                                                                         *)
(* A producer sends transaction views on a bounded channel; index() pulls  *)
(* them one at a time and index_rgbpp_lock() extracts the RGBPPUnlock      *)
(* structures of the witnesses and the RGBPPLock structures of the lock    *)
(* args of the resolved inputs and of the outputs, and persists each with  *)
(* a find_by_id followed, when absent, by an insert.  The decode steps run *)
(* on a data-parallel pool and finish in any order.                        *)
(*                                                                         *)
(* Bytes are modelled as sequences of 0..255 and the molecule layouts      *)
(* (fixvec, option, table, struct) are verified and sliced byte by byte.   *)
(* Every await point of the code is one step of the consumer.              *)
(***************************************************************************)
EXTENDS Integers, Sequences, FiniteSets, TLC

(***************************************************************************)
(* Bounds of the model.                                                    *)
(***************************************************************************)
\* number of transactions the producer sends at most
MaxSent == 3
\* the same, in the specification that is checked for liveness
MaxLiveSent == 2
\* how many transactions more than the channel holds the producer of CapSpec
\* sends
MaxOverCapacity == 1
\* number of transactions sent at most while a second instance runs
MaxRaceSent == 1
\* number of persist calls the second instance makes at most
MaxPeerUpserts == 2
\* number of transactions sent at most in the specification whose
\* transactions hold several candidates with one identifier
MaxParSent == 2
\* number of times the pipeline is run again after index() returned an error
MaxRestarts == 1

(***************************************************************************)
(* Sizes of the binary layouts.                                            *)
(***************************************************************************)
\* molecule::NUMBER_SIZE: the u32 header of a fixvec / table, skipped by Bytes::raw_data
NUMBER_SIZE == 4
\* Uint32 (out_index), read by get_u32_le
Uint32Size == 4
\* Byte32 (btc_txid) and H256
Byte32Size == 32
\* Uint16 (version), read by get_u16_le
Uint16Size == 2
\* mpsc::channel(100)
ChannelCapacity == 100

(***************************************************************************)
(* Byte strings.                                                           *)
(***************************************************************************)
\* LET x == v IN Op(x), with v evaluated once, before Op is applied
Let(v, Op(_)) == CHOOSE r \in { Op(x) : x \in { v } } : TRUE

RECURSIVE Pow(_, _)
Pow(b, e) == IF e = 0 THEN 1 ELSE b * Pow(b, e - 1)

\* the little-endian bytes of n on width bytes
LE(n, width) == [i \in 1..width |-> (n \div Pow(256, i - 1)) % 256]

\* the unsigned little-endian number held by the byte string bs
RECURSIVE FromLE(_)
FromLE(bs) == IF bs = << >> THEN 0 ELSE Head(bs) + 256 * FromLE(Tail(bs))

\* bs[from..to) with 0-based offsets, as a Rust slice
Slice(bs, from, to) == SubSeq(bs, from + 1, to)

\* a mutation of Reverse: the bytes are left in their order
ReverseNot(bs) == bs

\* Vec::reverse
Reverse(bs) == [i \in 1..Len(bs) |-> bs[Len(bs) + 1 - i]]

\* the largest number of four bytes whose top byte is below 128: 2^31 - 1
MaxNumber == 127 * Pow(256, 3) + (Pow(256, 3) - 1)

\* molecule::unpack_number at a 0-based offset.  A number of 2^31 or more is
\* held as MaxNumber: unpacked numbers are only compared with sizes and
\* offsets of byte strings, which are far below it
UnpackNumber(bs, off) ==
    LET b == Slice(bs, off, off + NUMBER_SIZE)
    IN  IF b[NUMBER_SIZE] >= 128 THEN MaxNumber ELSE FromLE(b)

\* get_u32_le() as i32: the two's complement reading of four bytes
GetU32LeAsI32(bs) ==
    FromLE(SubSeq(bs, 1, 3)) + Pow(256, 3) * (IF bs[4] >= 128 THEN bs[4] - 256 ELSE bs[4])

\* get_u16_le() as i16: the two's complement reading of two bytes
GetU16LeAsI16(bs) ==
    bs[1] + 256 * (IF bs[2] >= 128 THEN bs[2] - 256 ELSE bs[2])

\* get_u8() as i16: a byte widened
GetU8AsI16(bs) == bs[1]

(***************************************************************************)
(* molecule: fixvec Bytes, option BytesOpt, tables.                        *)
(***************************************************************************)
\* Bytes as packed: u32 item count, then the items
PackBytes(data) == LE(Len(data), NUMBER_SIZE) \o data

\* BytesReader::verify
BytesVerify(s) ==
    /\ Len(s) >= NUMBER_SIZE
    /\ Len(s) - NUMBER_SIZE = UnpackNumber(s, 0)

\* Bytes::raw_data: the slice after the u32 header (no check: new_unchecked)
BytesRawData(s) == Slice(s, NUMBER_SIZE, Len(s))

\* BytesOptReader::verify: empty is None, otherwise a Bytes
BytesOptVerify(s) == s = << >> \/ BytesVerify(s)

RECURSIVE SumLen(_)
SumLen(fields) == IF fields = << >> THEN 0 ELSE Len(Head(fields)) + SumLen(Tail(fields))

RECURSIVE Concat(_)
Concat(fields) == IF fields = << >> THEN << >> ELSE Head(fields) \o Concat(Tail(fields))

\* a table as packed: total size, one offset per field, the fields
PackTable(fields) ==
    LET n      == Len(fields)
        header == NUMBER_SIZE * (n + 1)
        off(i) == header + SumLen(SubSeq(fields, 1, i - 1))
    IN  LE(header + SumLen(fields), NUMBER_SIZE)
        \o Concat([i \in 1..n |-> LE(off(i), NUMBER_SIZE)])
        \o Concat(fields)

\* the header checks of a table reader's verify (compatible = false) for a
\* table of fieldCount > 0 fields
TableHeaderOk(s, fieldCount) ==
    /\ Len(s) >= NUMBER_SIZE
    /\ UnpackNumber(s, 0) = Len(s)
    /\ Len(s) >= 2 * NUMBER_SIZE
    /\ LET first == UnpackNumber(s, NUMBER_SIZE)
       IN  /\ first % NUMBER_SIZE = 0
           /\ first >= 2 * NUMBER_SIZE
           /\ Len(s) >= first
           /\ first \div NUMBER_SIZE - 1 = fieldCount

\* where field i (1-based) of a table starts; the total size stands for the
\* end of the last field
TableOffset(s, fieldCount, i) ==
    IF i <= fieldCount THEN UnpackNumber(s, NUMBER_SIZE * i) ELSE Len(s)

\* the offsets of a table whose header is ok do not decrease
TableOffsetsOk(s, fieldCount) ==
    \A i \in 1..fieldCount :
        TableOffset(s, fieldCount, i) <= TableOffset(s, fieldCount, i + 1)

\* field i (1-based) of a verified table
TableField(s, fieldCount, i) ==
    Slice(s, TableOffset(s, fieldCount, i), TableOffset(s, fieldCount, i + 1))

(***************************************************************************)
(* The three layouts: WitnessArgs (table of three BytesOpt), RGBPPUnlock   *)
(* (table: version Uint16, extra_data {input_len, output_len}, btc_tx      *)
(* Bytes, btc_tx_proof Bytes) and RGBPPLock (struct: out_index Uint32,     *)
(* btc_txid Byte32).  An entity is held as its bytes (as_bytes).           *)
(***************************************************************************)
WitnessArgsFields == 3
RGBPPUnlockFields == 4
ExtraDataSize == 2

\* blockchain::WitnessArgsReader::from_slice(..).ok() is Some
WitnessArgsVerify(s) ==
    /\ TableHeaderOk(s, WitnessArgsFields)
    /\ TableOffsetsOk(s, WitnessArgsFields)
    /\ \A i \in 1..WitnessArgsFields : BytesOptVerify(TableField(s, WitnessArgsFields, i))

\* rgbpp::RGBPPUnlockReader::from_slice(..).ok() is Some
RGBPPUnlockVerify(s) ==
    /\ TableHeaderOk(s, RGBPPUnlockFields)
    /\ TableOffsetsOk(s, RGBPPUnlockFields)
    /\ Len(TableField(s, RGBPPUnlockFields, 1)) = Uint16Size
    /\ Len(TableField(s, RGBPPUnlockFields, 2)) = ExtraDataSize
    /\ BytesVerify(TableField(s, RGBPPUnlockFields, 3))
    /\ BytesVerify(TableField(s, RGBPPUnlockFields, 4))

\* rgbpp::RGBPPLockReader::from_slice(..).ok() is Some: a struct has a fixed size
RGBPPLockVerify(s) == Len(s) = Uint32Size + Byte32Size

\* the fields of an RGBPPLock
out_index(lock) == Slice(lock, 0, Uint32Size)
btc_txid(lock) == Slice(lock, Uint32Size, Uint32Size + Byte32Size)

\* the fields of an RGBPPUnlock
version(unlock) == TableField(unlock, RGBPPUnlockFields, 1)
extra_data(unlock) == TableField(unlock, RGBPPUnlockFields, 2)
input_len(extra) == SubSeq(extra, 1, 1)
output_len(extra) == SubSeq(extra, 2, 2)
btc_tx(unlock) == TableField(unlock, RGBPPUnlockFields, 3)
btc_tx_proof(unlock) == TableField(unlock, RGBPPUnlockFields, 4)

\* the closure of the second filter_map over the witnesses: the result is an
\* option, held as a sequence of zero or one unlock
UnlockOfWitnessArgs(witness_args) ==
    LET lock == TableField(witness_args, WitnessArgsFields, 1)
    IN  IF lock = << >>
        THEN << >>
        ELSE Let(BytesRawData(lock),
                 LAMBDA lock_witness :
                     IF RGBPPUnlockVerify(lock_witness) THEN << lock_witness >> ELSE << >>)

\* both filter_maps applied to one witness
UnlockOfWitness(witness) ==
    Let(witness,
        LAMBDA w : IF WitnessArgsVerify(w) THEN UnlockOfWitnessArgs(w) ELSE << >>)

\* a mutation of LockOfArgs: the size is checked with >= and the first bytes
\* are taken for the lock
LockOfArgsPrefix(args) ==
    IF Len(args) >= Uint32Size + Byte32Size
    THEN << SubSeq(args, 1, Uint32Size + Byte32Size) >>
    ELSE << >>

\* the closure of the filter_map over outputs: an option, as above
LockOfArgs(args) == Let(args, LAMBDA a : IF RGBPPLockVerify(a) THEN << a >> ELSE << >>)

\* orders in which the threads of the pool can finish n items: the items in
\* their order or back to front, starting at any of them (every order there
\* is of up to three items)
Schedules(n) ==
    { [k \in 1..n |-> ((start + k - 2) % n) + 1] : start \in 1..n }
    \cup { [k \in 1..n |-> ((start + n - k) % n) + 1] : start \in 1..n }
    \cup { [k \in 1..n |-> k] }

\* a mutation of CollectInItemOrder: the results are put together in the
\* order the items were finished in
CollectInFinishOrder(done) == Concat([k \in 1..Len(done) |-> done[k].out])

\* collect::<Vec<_>>() of a parallel iterator over a Vec: the results are put
\* together in the order of the items, whatever order they were finished in
CollectInItemOrder(done) ==
    Concat([i \in 1..Len(done) |->
               done[CHOOSE k \in 1..Len(done) : done[k].index = i].out])

\* witnesses.par_iter().filter_map(..).filter_map(..).collect::<Vec<_>>()
\* when the items are finished in the order sched
ParCollectUnlocks(witnesses, sched) ==
    Let([k \in 1..Len(witnesses) |->
            [index |-> sched[k], out |-> UnlockOfWitness(witnesses[sched[k]])]],
        CollectInItemOrder)

\* par_iter().filter_map(..).collect::<Vec<_>>() over the lock args of a list
\* of outputs when the items are finished in the order sched
ParCollectLocks(args, sched) ==
    Let([k \in 1..Len(args) |->
            [index |-> sched[k], out |-> LockOfArgs(args[sched[k]])]],
        CollectInItemOrder)

\* the same filter_maps done item by item on one thread
RECURSIVE CollectUnlocks(_)
CollectUnlocks(witnesses) ==
    IF witnesses = << >> THEN << >>
    ELSE UnlockOfWitness(Head(witnesses)) \o CollectUnlocks(Tail(witnesses))

RECURSIVE CollectLocks(_)
CollectLocks(args) ==
    IF args = << >> THEN << >>
    ELSE LockOfArgs(Head(args)) \o CollectLocks(Tail(args))

(***************************************************************************)
(* Identity functions and rows.                                            *)
(***************************************************************************)
\* ckb_hash::blake2b_256, taken as a perfect digest: the digest of a byte
\* string is a value that names it and nothing else
blake2b_256(bytes) == [blake2b_256 |-> bytes]

\* RGBPPLock::lock_id: the lock's bytes are read as a packed Bytes, whose
\* raw_data leaves the first NUMBER_SIZE bytes out
lock_id(lock) == BytesRawData(lock)

\* RGBPPUnlock::unlock_id
unlock_id(unlock) == blake2b_256(unlock)

\* the rgbpp_locks::ActiveModel of upsert_rgbpp_lock
LockRow(lock, tx) ==
    [ lock_id   |-> lock_id(lock),
      out_index |-> GetU32LeAsI32(out_index(lock)),
      btc_txid  |-> Reverse(btc_txid(lock)),
      tx        |-> tx ]

\* the rgbpp_unlocks::ActiveModel of upsert_rgbpp_unlock
UnlockRow(unlock, tx) ==
    [ unlock_id    |-> unlock_id(unlock),
      version      |-> GetU16LeAsI16(version(unlock)),
      input_len    |-> GetU8AsI16(input_len(extra_data(unlock))),
      output_len   |-> GetU8AsI16(output_len(extra_data(unlock))),
      btc_tx       |-> btc_tx(unlock),
      btc_tx_proof |-> btc_tx_proof(unlock),
      tx           |-> tx ]

(***************************************************************************)
(* The data the producer and the chain can hold: a few concrete locks,     *)
(* unlocks, witnesses and transactions, well formed and malformed.         *)
(***************************************************************************)
\* a 32-byte value that is not its own reverse
Bytes32(k) == [i \in 1..Byte32Size |-> (16 * k + i) % 256]

\* an RGBPPLock as encoded: out_index then btc_txid
PackLock(index, txid) == index \o txid

\* an RGBPPUnlock as encoded
PackUnlock(ver, ilen, olen, btx, proof) ==
    PackTable(<< LE(ver, Uint16Size), << ilen, olen >>,
                 PackBytes(btx), PackBytes(proof) >>)

\* a WitnessArgs as encoded, each field << >> (None) or a packed Bytes
PackWitnessArgs(lock, input_type, output_type) ==
    PackTable(<< lock, input_type, output_type >>)

\* the lock structures of the model
LockA == PackLock(LE(1, Uint32Size), Bytes32(1))
\* the btc_txid of LockA with another out_index
LockB == PackLock(LE(2, Uint32Size), Bytes32(1))
\* an out_index of 2^31 + 5
LockC == PackLock(<< 5, 0, 0, 128 >>, Bytes32(2))
LockStructs == { LockA, LockB, LockC }

\* the unlock structures of the model
UnlockA == PackUnlock(0, 1, 2, << 7, 8 >>, << 9 >>)
UnlockB == PackUnlock(Pow(2, 15) + 1, 200, 1, << 7, 8 >>, << >>)
UnlockStructs == { UnlockA, UnlockB }

\* lock args that are no RGBPPLock: too short, one byte too long, empty
BadArgs1 == << 1, 2, 3 >>
BadArgs2 == LockA \o << 0 >>
BadArgs3 == << >>

\* witnesses: with an unlock in the lock field
WitnessA == PackWitnessArgs(PackBytes(UnlockA), << >>, << >>)
WitnessB == PackWitnessArgs(PackBytes(UnlockB), << >>, PackBytes(<< 5 >>))
\* no WitnessArgs at all
WitnessGarbage == << 222, 173, 190, 239, 0 >>
\* a WitnessArgs cut short by one byte
WitnessCut == SubSeq(WitnessA, 1, Len(WitnessA) - 1)
\* a WitnessArgs without lock field
WitnessNoLock == PackWitnessArgs(<< >>, PackBytes(<< 1, 2 >>), << >>)
\* a WitnessArgs whose lock is no RGBPPUnlock: a signature, an unlock cut short
WitnessSig == PackWitnessArgs(PackBytes(<< 1, 2, 3, 4, 5 >>), << >>, << >>)
WitnessCutUnlock ==
    PackWitnessArgs(PackBytes(SubSeq(UnlockA, 1, Len(UnlockA) - 1)), << >>, << >>)

\* H256 of a transaction
TxHash(k) == Bytes32(100 + k)

\* a CellInput: the out point it spends
Input(k, index) == [previous_output |-> [tx_hash |-> TxHash(k), index |-> index]]

\* a CellOutput, reduced to its lock script's args
Output(args) == [lock |-> [args |-> args]]

\* the cells of the chain: what an out point resolves to
CellAt(out_point) ==
    CASE out_point = [tx_hash |-> TxHash(0), index |-> 0] -> Output(LockA)
      [] out_point = [tx_hash |-> TxHash(0), index |-> 1] -> Output(BadArgs1)
      [] out_point = [tx_hash |-> TxHash(0), index |-> 2] -> Output(LockC)
      [] OTHER -> Output(BadArgs3)

\* the TransactionViews the producer can send
Tx1 == [ hash      |-> TxHash(1),
         witnesses |-> << WitnessGarbage, WitnessA, WitnessNoLock >>,
         inputs    |-> << Input(0, 0) >>,
         outputs   |-> << Output(BadArgs2) >> ]
Tx2 == [ hash      |-> TxHash(2),
         witnesses |-> << WitnessA, WitnessSig, WitnessB >>,
         inputs    |-> << Input(0, 1), Input(0, 0) >>,
         outputs   |-> << Output(LockB), Output(LockC) >> ]
Tx3 == [ hash      |-> TxHash(3),
         witnesses |-> << WitnessCut, WitnessB, WitnessCutUnlock, WitnessB >>,
         inputs    |-> << Input(0, 2) >>,
         outputs   |-> << Output(BadArgs1), Output(LockC) >> ]
Tx4 == [ hash      |-> TxHash(4),
         witnesses |-> << >>,
         inputs    |-> << >>,
         outputs   |-> << Output(BadArgs3) >> ]
Transactions == { Tx1, Tx2, Tx3, Tx4 }

\* a transaction whose outputs hold two locks with one lock_id
Tx5 == [ hash      |-> TxHash(5),
         witnesses |-> << WitnessB, WitnessA >>,
         inputs    |-> << >>,
         outputs   |-> << Output(LockB), Output(LockA) >> ]
ParTransactions == { Tx2, Tx3, Tx5 }

(***************************************************************************)
(* The state.                                                              *)
(***************************************************************************)
VARIABLES
    queue,          \* the mpsc channel: the items sent and not yet received
    open,           \* the Sender is alive (not yet dropped)
    pc,             \* the await point index() stands at
    tx,             \* the item index_rgbpp_lock() is processing
    rgbpp_unlocks,  \* the unlocks of tx still to persist, the current one first
    locks,          \* the locks of tx still to persist, the current one first
    result,         \* what index() returned, "none" while it runs
    lock_table,     \* the rows of rgbpp_locks
    unlock_table,   \* the rows of rgbpp_unlocks
    intake,         \* history: the transaction views sent so far, in order
    prior,          \* history: the rows the store held at construction
    calls,          \* history: the calls awaited so far, in order
    peer            \* a second pipeline instance on the same store

vars == << queue, open, pc, tx, rgbpp_unlocks, locks, result,
           lock_table, unlock_table, intake, prior, calls, peer >>

\* what no step of index() writes: the producer's variables, the histories
\* only the producer writes, and the second instance
producer_vars == << open, intake, prior, peer >>
\* the store
store_vars == << lock_table, unlock_table >>

\* no transaction in hand
NoTx == [seq |-> 0, view |-> [hash |-> << >>, witnesses |-> << >>,
                              inputs |-> << >>, outputs |-> << >>]]

\* one awaited call, as recorded in the history: the call, the place in the
\* intake order of the transaction it was made for, the identifier it was
\* about, whether it returned Ok, and for a find whether a row was found
Call(name, seq, id, ok, found) ==
    [call |-> name, seq |-> seq, id |-> id, ok |-> ok, found |-> found]

\* what the store holds when the indexer is constructed: nothing, or the
\* rows an earlier run left
\* the second instance between two persist calls, after n of them
PeerIdle(n) == [pc |-> "idle", n |-> n, item |-> << >>, tx |-> << >>]

PriorStores ==
    { [locks |-> {}, unlocks |-> {}],
      [locks   |-> { LockRow(LockA, TxHash(0)) },
       unlocks |-> { UnlockRow(UnlockA, TxHash(0)) }] }

Init ==
    /\ queue = << >>
    /\ open = TRUE
    /\ pc = "next"
    /\ tx = NoTx
    /\ rgbpp_unlocks = << >>
    /\ locks = << >>
    /\ result = "none"
    /\ prior \in PriorStores
    /\ lock_table = prior.locks
    /\ unlock_table = prior.unlocks
    /\ intake = << >>
    /\ calls = << >>
    /\ peer = PeerIdle(0)

(***************************************************************************)
(* The producer: the Sender returned by RgbppIndexer::new.                 *)
(***************************************************************************)
\* a mutation of Send: the channel takes the item whether or not it has room
\* (an unbounded channel)
SendUnbounded(view) ==
    /\ open
    /\ result = "none"
    /\ queue' = Append(queue, [seq |-> Len(intake) + 1, view |-> view])
    /\ intake' = Append(intake, view)
    /\ UNCHANGED << open, prior, peer, pc, tx, rgbpp_unlocks, locks, result,
                    store_vars, calls >>

\* tx.send(view).await completes when the channel has room and the receiver lives
Send(view) ==
    /\ open
    /\ result = "none"
    /\ Len(queue) < ChannelCapacity
    /\ queue' = Append(queue, [seq |-> Len(intake) + 1, view |-> view])
    /\ intake' = Append(intake, view)
    /\ UNCHANGED << open, prior, peer, pc, tx, rgbpp_unlocks, locks, result,
                    store_vars, calls >>

\* the Sender is dropped: the stream ends once the queue is drained
Close ==
    /\ open
    /\ open' = FALSE
    /\ UNCHANGED << queue, intake, prior, peer, pc, tx, rgbpp_unlocks, locks, result,
                    store_vars, calls >>

(***************************************************************************)
(* index() and index_rgbpp_lock().                                         *)
(***************************************************************************)
\* a mutation of Abort: the error is dropped and the loop goes on with the
\* next item (skip and continue)
AbortSkip(err) ==
    /\ pc' = "next"
    /\ result' = result

\* the ? operator on an Err: index_rgbpp_lock returns it and so does index
Abort(err) ==
    /\ pc' = "returned"
    /\ result' = err

\* a mutation of NextItem: the stream yields the newest item
NextItemNewest(q) == q[Len(q)]

\* the item stream.next() yields: the oldest of the queue
NextItem(q) == Head(q)

\* where index_rgbpp_lock goes when the unlocks left to persist are `left`
AfterUnlocks(left) == IF left = << >> THEN "get_outputs" ELSE "find_unlock"

\* where it goes when the locks left to persist are `left`: the loop goes
\* on, or index_rgbpp_lock returns Ok and index awaits the next item
AfterLocks(left) == IF left = << >> THEN "next" ELSE "find_lock"

\* stream.next().await yields Some(tx): index_rgbpp_lock starts and gathers
\* the unlocks of the witnesses on the pool
Pull ==
    /\ pc = "next"
    /\ queue # << >>
    /\ LET item == NextItem(queue)
       IN  \E sched \in Schedules(Len(item.view.witnesses)) :
              LET unlocks == ParCollectUnlocks(item.view.witnesses, sched)
              IN  /\ tx' = item
                  /\ queue' = Tail(queue)
                  /\ rgbpp_unlocks' = unlocks
                  /\ pc' = AfterUnlocks(unlocks)
                  /\ calls' = Append(calls, Call("next", item.seq, << >>, TRUE, FALSE))
    /\ UNCHANGED << producer_vars, locks, result, store_vars >>

\* a mutation of EndOfStream: an empty queue is taken for the end of the
\* stream, whether or not the Sender is alive
EndOfStreamWhenEmpty ==
    /\ pc = "next"
    /\ queue = << >>
    /\ pc' = "returned"
    /\ result' = "Ok"
    /\ UNCHANGED << queue, producer_vars, tx, rgbpp_unlocks, locks, store_vars, calls >>

\* stream.next().await yields None: the channel is closed and empty, the
\* loop ends and index returns Ok(())
EndOfStream ==
    /\ pc = "next"
    /\ queue = << >>
    /\ ~open
    /\ pc' = "returned"
    /\ result' = "Ok"
    /\ UNCHANGED << queue, producer_vars, tx, rgbpp_unlocks, locks, store_vars, calls >>

\* a mutation of unlock_exists: a find that takes every identifier for absent
unlock_exists_never(id) == FALSE

\* a mutation of unlock_exists: the answer is taken from what the store held
\* at construction (a snapshot, a cache that is never refreshed)
unlock_exists_at_start(id) == \E row \in prior.unlocks : row.unlock_id = id

\* rgbpp_unlocks::Entity::find_by_id(unlock_id).one(db).await?.is_some()
unlock_exists(id) == \E row \in unlock_table : row.unlock_id = id

\* `if !unlock_exists { insert }` has no else: a row that exists stays as it is
OnUnlockExists(table, row) == table

\* upsert_rgbpp_unlock up to its first await: the existence check
FindUnlock ==
    /\ pc = "find_unlock"
    /\ LET unlock == Head(rgbpp_unlocks)
           id == unlock_id(unlock)
       IN  \E ok \in BOOLEAN :
              /\ calls' = Append(calls,
                     Call("find_unlock", tx.seq, id, ok, ok /\ unlock_exists(id)))
              /\ IF ~ok
                 THEN Abort("DbErr") /\ UNCHANGED << rgbpp_unlocks, unlock_table >>
                 ELSE IF unlock_exists(id)
                      THEN /\ unlock_table' =
                                OnUnlockExists(unlock_table, UnlockRow(unlock, tx.view.hash))
                           /\ rgbpp_unlocks' = Tail(rgbpp_unlocks)
                           /\ pc' = AfterUnlocks(Tail(rgbpp_unlocks))
                           /\ UNCHANGED result
                      ELSE /\ pc' = "insert_unlock"
                           /\ UNCHANGED << rgbpp_unlocks, result, unlock_table >>
    /\ UNCHANGED << queue, producer_vars, tx, locks, lock_table >>

\* the table after ActiveModel{..}.insert(db) returned Ok
InsertedUnlock(table, row) == table \cup { row }

\* upsert_rgbpp_unlock: the insert.  The store refuses a second row with the
\* primary key of a row it holds
InsertUnlock ==
    /\ pc = "insert_unlock"
    /\ LET row == UnlockRow(Head(rgbpp_unlocks), tx.view.hash)
       IN  \E answer \in BOOLEAN :
              LET ok == answer /\ \A held \in unlock_table : held.unlock_id # row.unlock_id
              IN  /\ calls' = Append(calls,
                         Call("insert_unlock", tx.seq, row.unlock_id, ok, FALSE))
                  /\ IF ok
                     THEN /\ unlock_table' = InsertedUnlock(unlock_table, row)
                          /\ rgbpp_unlocks' = Tail(rgbpp_unlocks)
                          /\ pc' = AfterUnlocks(Tail(rgbpp_unlocks))
                          /\ UNCHANGED result
                     ELSE Abort("DbErr") /\ UNCHANGED << rgbpp_unlocks, unlock_table >>
    /\ UNCHANGED << queue, producer_vars, tx, locks, lock_table >>

\* fetcher.get_outputs(inputs): the cells the inputs spend, in input order
get_outputs(inputs) == [i \in 1..Len(inputs) |-> CellAt(inputs[i].previous_output)]

\* the lock args of a list of outputs
ArgsOf(outputs) == [i \in 1..Len(outputs) |-> outputs[i].lock.args]

\* a mutation of GatherLocks: the locks of the resolved inputs are left out
GatherLocksOfOutputs(inputs, outputs) == outputs

\* a mutation of GatherLocks: the locks of the outputs come first
GatherLocksOutputsFirst(inputs, outputs) == outputs \o inputs

\* [inputs, outputs].concat(): the locks of the resolved inputs, then those
\* of the outputs of the transaction
GatherLocks(inputs, outputs) == inputs \o outputs

\* fetcher.get_outputs(tx.inner.inputs).await?, then the locks are gathered:
\* the two filter_maps run on the pool, one after the other
GetOutputs ==
    /\ pc = "get_outputs"
    /\ \E ok \in BOOLEAN :
          /\ calls' = Append(calls, Call("get_outputs", tx.seq, << >>, ok, FALSE))
          /\ IF ~ok
             THEN Abort("FetcherErr") /\ UNCHANGED locks
             ELSE \E in_sched \in Schedules(Len(tx.view.inputs)),
                     out_sched \in Schedules(Len(tx.view.outputs)) :
                     LET pre_outputs == get_outputs(tx.view.inputs)
                         inputs == ParCollectLocks(ArgsOf(pre_outputs), in_sched)
                         outputs == ParCollectLocks(ArgsOf(tx.view.outputs), out_sched)
                     IN  /\ locks' = GatherLocks(inputs, outputs)
                         /\ pc' = AfterLocks(GatherLocks(inputs, outputs))
                         /\ UNCHANGED result
    /\ UNCHANGED << queue, producer_vars, tx, rgbpp_unlocks, store_vars >>

\* a mutation of lock_exists: a find that takes every identifier for absent
lock_exists_never(id) == FALSE

\* a mutation of lock_exists: the answer is taken from what the store held
\* at construction (a snapshot, a cache that is never refreshed)
lock_exists_at_start(id) == \E row \in prior.locks : row.lock_id = id

\* rgbpp_locks::Entity::find_by_id(lock_id).one(db).await?.is_some()
lock_exists(id) == \E row \in lock_table : row.lock_id = id

\* a mutation of OnLockExists: the row that exists is overwritten (an upsert
\* that updates on conflict)
OnLockExistsUpdate(table, row) ==
    { held \in table : held.lock_id # row.lock_id } \cup { row }

\* `if !lock_exists { insert }` has no else: a row that exists stays as it is
OnLockExists(table, row) == table

\* upsert_rgbpp_lock up to its first await: the existence check
FindLock ==
    /\ pc = "find_lock"
    /\ LET lock == Head(locks)
           id == lock_id(lock)
       IN  \E ok \in BOOLEAN :
              /\ calls' = Append(calls,
                     Call("find_lock", tx.seq, id, ok, ok /\ lock_exists(id)))
              /\ IF ~ok
                 THEN Abort("DbErr") /\ UNCHANGED << locks, lock_table >>
                 ELSE IF lock_exists(id)
                      THEN /\ lock_table' =
                                OnLockExists(lock_table, LockRow(lock, tx.view.hash))
                           /\ locks' = Tail(locks)
                           /\ pc' = AfterLocks(Tail(locks))
                           /\ UNCHANGED result
                      ELSE /\ pc' = "insert_lock"
                           /\ UNCHANGED << locks, result, lock_table >>
    /\ UNCHANGED << queue, producer_vars, tx, rgbpp_unlocks, unlock_table >>

\* the table after ActiveModel{..}.insert(db) returned Ok
InsertedLock(table, row) == table \cup { row }

\* a mutation of InsertLock: an insert that does nothing and returns Ok when
\* a row with the primary key exists (ON CONFLICT DO NOTHING)
InsertLockOrIgnore ==
    /\ pc = "insert_lock"
    /\ LET row == LockRow(Head(locks), tx.view.hash)
       IN  \E ok \in BOOLEAN :
              /\ calls' = Append(calls,
                     Call("insert_lock", tx.seq, row.lock_id, ok, FALSE))
              /\ IF ok
                 THEN /\ lock_table' =
                           IF \A held \in lock_table : held.lock_id # row.lock_id
                           THEN InsertedLock(lock_table, row)
                           ELSE lock_table
                      /\ locks' = Tail(locks)
                      /\ pc' = AfterLocks(Tail(locks))
                      /\ UNCHANGED result
                 ELSE Abort("DbErr") /\ UNCHANGED << locks, lock_table >>
    /\ UNCHANGED << queue, producer_vars, tx, rgbpp_unlocks, unlock_table >>

\* upsert_rgbpp_lock: the insert.  The store refuses a second row with the
\* primary key of a row it holds
InsertLock ==
    /\ pc = "insert_lock"
    /\ LET row == LockRow(Head(locks), tx.view.hash)
       IN  \E answer \in BOOLEAN :
              LET ok == answer /\ \A held \in lock_table : held.lock_id # row.lock_id
              IN  /\ calls' = Append(calls,
                         Call("insert_lock", tx.seq, row.lock_id, ok, FALSE))
                  /\ IF ok
                     THEN /\ lock_table' = InsertedLock(lock_table, row)
                          /\ locks' = Tail(locks)
                          /\ pc' = AfterLocks(Tail(locks))
                          /\ UNCHANGED result
                     ELSE Abort("DbErr") /\ UNCHANGED << locks, lock_table >>
    /\ UNCHANGED << queue, producer_vars, tx, rgbpp_unlocks, unlock_table >>

(***************************************************************************)
(* A second pipeline instance on the same store, reduced to the persist    *)
(* calls it makes: upsert_rgbpp_lock and upsert_rgbpp_unlock for the       *)
(* structures of the transactions of its own stream.                       *)
(***************************************************************************)
\* the hash of the transaction the second instance is processing
PeerTx == TxHash(9)

\* what index() of the second instance is left with after a call
PeerAfterFind(found, n, call, item) ==
    IF found THEN PeerIdle(n) ELSE [pc |-> call, n |-> n, item |-> item, tx |-> PeerTx]
PeerReturned == [peer EXCEPT !.pc = "returned"]

\* upsert_rgbpp_lock of the second instance up to its first await
PeerFindLock(lock) ==
    /\ peer.pc = "idle"
    /\ peer.n < MaxPeerUpserts
    /\ \E ok \in BOOLEAN :
          peer' = IF ok
                  THEN PeerAfterFind(lock_exists(lock_id(lock)), peer.n + 1,
                                     "insert_lock", lock)
                  ELSE PeerReturned
    /\ UNCHANGED << queue, open, intake, prior, pc, tx, rgbpp_unlocks, locks, result,
                    store_vars, calls >>

\* upsert_rgbpp_lock of the second instance: the insert
PeerInsertLock ==
    /\ peer.pc = "insert_lock"
    /\ LET row == LockRow(peer.item, peer.tx)
       IN  \E answer \in BOOLEAN :
              IF answer /\ \A held \in lock_table : held.lock_id # row.lock_id
              THEN lock_table' = InsertedLock(lock_table, row) /\ peer' = PeerIdle(peer.n)
              ELSE lock_table' = lock_table /\ peer' = PeerReturned
    /\ UNCHANGED << queue, open, intake, prior, pc, tx, rgbpp_unlocks, locks, result,
                    unlock_table, calls >>

\* upsert_rgbpp_unlock of the second instance up to its first await
PeerFindUnlock(unlock) ==
    /\ peer.pc = "idle"
    /\ peer.n < MaxPeerUpserts
    /\ \E ok \in BOOLEAN :
          peer' = IF ok
                  THEN PeerAfterFind(unlock_exists(unlock_id(unlock)), peer.n + 1,
                                     "insert_unlock", unlock)
                  ELSE PeerReturned
    /\ UNCHANGED << queue, open, intake, prior, pc, tx, rgbpp_unlocks, locks, result,
                    store_vars, calls >>

\* upsert_rgbpp_unlock of the second instance: the insert
PeerInsertUnlock ==
    /\ peer.pc = "insert_unlock"
    /\ LET row == UnlockRow(peer.item, peer.tx)
       IN  \E answer \in BOOLEAN :
              IF answer /\ \A held \in unlock_table : held.unlock_id # row.unlock_id
              THEN unlock_table' = InsertedUnlock(unlock_table, row) /\ peer' = PeerIdle(peer.n)
              ELSE unlock_table' = unlock_table /\ peer' = PeerReturned
    /\ UNCHANGED << queue, open, intake, prior, pc, tx, rgbpp_unlocks, locks, result,
                    lock_table, calls >>

Peer ==
    \/ \E lock \in LockStructs : PeerFindLock(lock)
    \/ PeerInsertLock
    \/ \E unlock \in UnlockStructs : PeerFindUnlock(unlock)
    \/ PeerInsertUnlock

\* the producer sends a bounded number of transactions
Producer ==
    \/ \E view \in Transactions : Len(intake) < MaxSent /\ Send(view)
    \/ Close

Consumer ==
    \/ Pull
    \/ EndOfStream
    \/ FindUnlock
    \/ InsertUnlock
    \/ GetOutputs
    \/ FindLock
    \/ InsertLock

Next == Producer \/ Consumer

Spec == Init /\ [][Next]_vars

\* the producer of the specification checked for liveness: it sends fewer
\* transactions
LiveProducer ==
    \/ \E view \in Transactions : Len(intake) < MaxLiveSent /\ Send(view)
    \/ Close

LiveNext == LiveProducer \/ Consumer

\* the runtime polls the task of index() as long as it can make a step, and
\* every awaited call returns
LiveSpec == Init /\ [][LiveNext]_vars /\ WF_vars(Consumer)

\* a producer that sends as many transactions as the channel holds and some
\* more: one with candidates, then transactions without
CapProducer ==
    \/ /\ Len(intake) < ChannelCapacity + MaxOverCapacity
       /\ Send(IF intake = << >> THEN Tx1 ELSE Tx4)
    \/ Close

CapNext == CapProducer \/ Consumer

CapSpec == Init /\ [][CapNext]_vars

\* a producer of transactions that hold several candidates with one identifier
ParProducer ==
    \/ \E view \in ParTransactions : Len(intake) < MaxParSent /\ Send(view)
    \/ Close

ParNext == ParProducer \/ Consumer

ParSpec == Init /\ [][ParNext]_vars

(***************************************************************************)
(* The driving layer: after index() returned an error it runs a new        *)
(* pipeline on the same store, on a stream that starts again at the        *)
(* transaction index() was processing.                                     *)
(***************************************************************************)
\* the transaction before the one in hand, NoTx before the first
Previous(item) ==
    IF item.seq > 1
    THEN [seq |-> item.seq - 1, view |-> intake[item.seq - 1]]
    ELSE NoTx

Restart ==
    /\ result \in { "FetcherErr", "DbErr" }
    /\ Cardinality({ i \in 1..Len(calls) : ~calls[i].ok }) <= MaxRestarts
    /\ queue' = << tx >> \o queue
    /\ tx' = Previous(tx)
    /\ pc' = "next"
    /\ result' = "none"
    /\ rgbpp_unlocks' = << >>
    /\ locks' = << >>
    /\ UNCHANGED << producer_vars, store_vars, calls >>

\* the stream of the specification with restarts: transactions that have
\* candidates in common
RestartStream == << Tx1, Tx2, Tx3 >>

RestartProducer ==
    \/ Len(intake) < Len(RestartStream) /\ Send(RestartStream[Len(intake) + 1])
    \/ Close

RestartNext == RestartProducer \/ Consumer \/ Restart

RestartSpec == Init /\ [][RestartNext]_vars

\* the producer of the specification with two instances
RaceProducer ==
    \/ \E view \in { Tx1, Tx3 } : Len(intake) < MaxRaceSent /\ Send(view)
    \/ Close

RaceNext == RaceProducer \/ Consumer \/ Peer

\* two pipeline instances on one store
RaceSpec == Init /\ [][RaceNext]_vars

(***************************************************************************)
(* What the properties below speak of.                                     *)
(***************************************************************************)
Last(seq) == seq[Len(seq)]

\* the calls that reach the store or the resolver
IsFind(c) == c.call \in { "find_lock", "find_unlock" }
IsInsert(c) == c.call \in { "insert_lock", "insert_unlock" }

\* the rows of a table with an identifier
LockRowsOf(id) == { row \in lock_table : row.lock_id = id }
UnlockRowsOf(id) == { row \in unlock_table : row.unlock_id = id }

\* the transaction with place n in the intake order is fully processed:
\* index_rgbpp_lock returned Ok for it
Completed(n) ==
    /\ n >= 1
    /\ \/ tx.seq > n
       \/ tx.seq = n /\ (pc = "next" \/ result = "Ok")

\* some awaited call returned an error
SomeCallFailed == \E i \in 1..Len(calls) : ~calls[i].ok

\* the lock structures among the lock args of the cells a view spends and of
\* its outputs, and the unlock structures its witnesses wrap, told by
\* encoding the structures of the model, not by decoding the view
InputArgs(view) == { CellAt(view.inputs[i].previous_output).lock.args :
                        i \in 1..Len(view.inputs) }
OutputArgs(view) == { view.outputs[i].lock.args : i \in 1..Len(view.outputs) }
LocksIn(view) == { s \in LockStructs : s \in InputArgs(view) \cup OutputArgs(view) }
OptFields == { << >>, PackBytes(<< 5 >>), PackBytes(<< 1, 2 >>) }
WrappedUnlocks ==
    { [witness |-> PackWitnessArgs(PackBytes(u), x, y), unlock |-> u] :
         u \in UnlockStructs, x \in OptFields, y \in OptFields }
Wraps(witness, u) == [witness |-> witness, unlock |-> u] \in WrappedUnlocks
UnlocksIn(view) ==
    { u \in UnlockStructs : \E i \in 1..Len(view.witnesses) : Wraps(view.witnesses[i], u) }

(***************************************************************************)
(* C1.  Idempotent persist.  An upsert called for an identifier the store  *)
(* holds inserts nothing: its existence check, when the store answers it,  *)
(* leaves both tables as they are, does not go on to the insert and does   *)
(* not make index() return; and once an upsert for an identifier is over   *)
(* (the row was found, or was inserted), the table holds exactly one row   *)
(* with that identifier, however often the same structure is persisted.    *)
(***************************************************************************)
C1_UpsertHeldIsNoOp ==
    /\ (pc = "find_lock" /\ LockRowsOf(lock_id(Head(locks))) # {})
          => /\ lock_table' = lock_table
             /\ pc' # "insert_lock"
             /\ result' = "none" \/ ~Last(calls').ok
    /\ (pc = "find_unlock" /\ UnlockRowsOf(unlock_id(Head(rgbpp_unlocks))) # {})
          => /\ unlock_table' = unlock_table
             /\ pc' # "insert_unlock"
             /\ result' = "none" \/ ~Last(calls').ok

C1_OneRowPerPersisted ==
    \A i \in 1..Len(calls) :
        LET c == calls[i]
        IN  /\ (c.call = "find_lock" /\ c.found) \/ (c.call = "insert_lock" /\ c.ok)
                  => Cardinality(LockRowsOf(c.id)) = 1
            /\ (c.call = "find_unlock" /\ c.found) \/ (c.call = "insert_unlock" /\ c.ok)
                  => Cardinality(UnlockRowsOf(c.id)) = 1

\* C1: an upsert for an identifier the store holds is a no-op, and a persisted
\* identifier has exactly one row
C1_IdempotentPersist == [][C1_UpsertHeldIsNoOp]_vars /\ []C1_OneRowPerPersisted

\* the same lock and the same unlock were persisted twice: inserted once,
\* then looked up again and found
C1_Witness ==
    /\ \E i, j \in 1..Len(calls) :
          /\ i < j
          /\ calls[i].call = "insert_lock" /\ calls[i].ok
          /\ calls[j].call = "find_lock" /\ calls[j].found
          /\ calls[j].id = calls[i].id
    /\ \E i, j \in 1..Len(calls) :
          /\ i < j
          /\ calls[i].call = "insert_unlock" /\ calls[i].ok
          /\ calls[j].call = "find_unlock" /\ calls[j].found
          /\ calls[j].id = calls[i].id

(***************************************************************************)
(* C2.  Fail-fast on resolution failure.  If get_outputs returned an error *)
(* while a transaction was processed, no row was inserted for that         *)
(* transaction or for a later one: every insert that succeeded was made    *)
(* for a transaction earlier in the intake order.                          *)
(***************************************************************************)
C2_FailFastOnResolution ==
    \A i \in 1..Len(calls) :
        (calls[i].call = "get_outputs" /\ ~calls[i].ok)
            => \A j \in 1..Len(calls) :
                  (IsInsert(calls[j]) /\ calls[j].ok) => calls[j].seq < calls[i].seq

(***************************************************************************)
(* C3.  Lock identity law.  Two lock structures have the same lock_id      *)
(* exactly when their encoded bytes (out_index then btc_txid) are equal,   *)
(* so once a transaction is fully processed each lock structure among its  *)
(* resolved inputs and its outputs has a row of its own, with its          *)
(* out_index and its btc_txid.                                             *)
(***************************************************************************)
C3_LockIdentityLaw ==
    Completed(tx.seq) =>
        /\ \A a, b \in LocksIn(tx.view) : lock_id(a) = lock_id(b) <=> a = b
        /\ \A a \in LocksIn(tx.view) :
              \E row \in lock_table :
                  /\ row.out_index = GetU32LeAsI32(out_index(a))
                  /\ row.btc_txid = Reverse(btc_txid(a))

(***************************************************************************)
(* C4.  Cross-transaction ordering.  Transactions are processed one at a   *)
(* time in the order they were sent: the k-th item pulled is the k-th      *)
(* sent, the calls of the history are grouped by transaction in intake     *)
(* order, and when a transaction is pulled the one before it has had its   *)
(* resolver call and one existence check for each of its candidates.       *)
(***************************************************************************)
\* how many candidates a view holds, told by position
NumUnlockCandidates(view) ==
    Cardinality({ i \in 1..Len(view.witnesses) :
                     \E u \in UnlockStructs : Wraps(view.witnesses[i], u) })
NumLockCandidates(view) ==
    Cardinality({ i \in 1..Len(view.inputs) :
                     CellAt(view.inputs[i].previous_output).lock.args \in LockStructs })
    + Cardinality({ i \in 1..Len(view.outputs) : view.outputs[i].lock.args \in LockStructs })

\* how many calls of a kind the first `upto` calls of the history hold for
\* the transaction with place n
NumCalls(name, n, upto) ==
    Cardinality({ i \in 1..upto : calls[i].call = name /\ calls[i].seq = n })

\* C4: transactions are processed one at a time, in intake order, each to
\* its end before the next is pulled
C4_IntakeOrder ==
    /\ tx.seq >= 1 => tx.seq <= Len(intake) /\ tx.view = intake[tx.seq]
    /\ \A i, j \in 1..Len(calls) : i < j => calls[i].seq <= calls[j].seq
    /\ \A i \in 1..Len(calls) :
          calls[i].call = "next" =>
              LET n == calls[i].seq
              IN  /\ n = Cardinality({ k \in 1..i : calls[k].call = "next" })
                  /\ n > 1 =>
                        /\ NumCalls("get_outputs", n - 1, i) = 1
                        /\ NumCalls("find_unlock", n - 1, i)
                               = NumUnlockCandidates(intake[n - 1])
                        /\ NumCalls("find_lock", n - 1, i)
                               = NumLockCandidates(intake[n - 1])

\* three transactions were pulled one after the other, and rows were inserted
\* for the first and for the second
C4_Witness ==
    /\ tx.seq = 3
    /\ \E i \in 1..Len(calls) : calls[i].call = "next" /\ calls[i].seq = 3
    /\ \E i \in 1..Len(calls) : calls[i].call = "insert_lock" /\ calls[i].seq = 1
    /\ \E i \in 1..Len(calls) : calls[i].call = "insert_unlock" /\ calls[i].seq = 2

(***************************************************************************)
(* C5.  First writer wins, rows are immutable.  No step removes or changes *)
(* a row of either table, and no step adds a row whose identifier a row of *)
(* the table already has: a later observation of the identifier, in a      *)
(* transaction with another hash, leaves the row and its tx as they are.   *)
(***************************************************************************)
C5_TablesOnlyGrowByNewIds ==
    /\ \A row \in lock_table : row \in lock_table'
    /\ \A row \in lock_table' \ lock_table : LockRowsOf(row.lock_id) = {}
    /\ \A row \in unlock_table : row \in unlock_table'
    /\ \A row \in unlock_table' \ unlock_table : UnlockRowsOf(row.unlock_id) = {}

\* C5: every step keeps every row and adds rows with new identifiers only
C5_RowsImmutable == [][C5_TablesOnlyGrowByNewIds]_vars

\* a lock and an unlock were looked up and found while a transaction with
\* another hash than the one of their rows was processed
C5_Witness ==
    /\ \E i \in 1..Len(calls) :
          /\ calls[i].call = "find_lock" /\ calls[i].found
          /\ \E row \in LockRowsOf(calls[i].id) : row.tx # intake[calls[i].seq].hash
    /\ \E i \in 1..Len(calls) :
          /\ calls[i].call = "find_unlock" /\ calls[i].found
          /\ \E row \in UnlockRowsOf(calls[i].id) : row.tx # intake[calls[i].seq].hash

(***************************************************************************)
(* C6.  Abort on first error.  A call that returned an error is the last   *)
(* call of the history: index() has returned, with the error of that call  *)
(* (the resolver's or the store's), and from then on no step makes a call, *)
(* pulls an item or touches the store, whatever the queue still holds.     *)
(***************************************************************************)
Errors == { "FetcherErr", "DbErr" }

C6_ErrorIsLastCall ==
    /\ \A i \in 1..Len(calls) : ~calls[i].ok => i = Len(calls)
    /\ (calls # << >> /\ ~Last(calls).ok) =>
          /\ pc = "returned"
          /\ result = IF Last(calls).call = "get_outputs" THEN "FetcherErr" ELSE "DbErr"
    /\ result \in Errors => calls # << >> /\ ~Last(calls).ok

C6_ReturnedIsFinal ==
    result # "none" =>
        UNCHANGED << calls, queue, tx, pc, result, rgbpp_unlocks, locks, store_vars >>

\* C6: a failed call is the last call, index() returns its error and nothing
\* happens afterwards
C6_AbortOnFirstError == []C6_ErrorIsLastCall /\ [][C6_ReturnedIsFinal]_vars

\* index() returned an error while the queue still held transactions and the
\* producer had not closed
C6_Witness ==
    /\ result \in Errors
    /\ queue # << >>
    /\ open
    /\ \E i \in 1..Len(calls) : IsInsert(calls[i]) /\ calls[i].ok

(***************************************************************************)
(* C7.  Non-interference of malformed data.  A witness that is no          *)
(* WitnessArgs, has no lock or whose lock is no RGBPPUnlock, and lock args *)
(* that are no RGBPPLock, lead to no persist call, no row and no error:    *)
(* when a transaction is fully processed there was one existence check for *)
(* each well-formed candidate and none besides, every well-formed          *)
(* candidate has its row, every row of the store comes from a well-formed  *)
(* structure, and index() returns an error only when a call failed.        *)
(***************************************************************************)
C7_MalformedIsSkipped ==
    /\ Completed(tx.seq) =>
          /\ NumCalls("find_unlock", tx.seq, Len(calls)) = NumUnlockCandidates(tx.view)
          /\ NumCalls("find_lock", tx.seq, Len(calls)) = NumLockCandidates(tx.view)
          /\ \A u \in UnlocksIn(tx.view) : UnlockRowsOf(unlock_id(u)) # {}
          /\ \A a \in LocksIn(tx.view) : LockRowsOf(lock_id(a)) # {}
    /\ \A row \in unlock_table : \E u \in UnlockStructs : row.unlock_id = unlock_id(u)
    /\ \A row \in lock_table : \E a \in LockStructs : row.lock_id = lock_id(a)
    /\ result \in Errors => SomeCallFailed

\* Tx1 (a witness that is no WitnessArgs, one without lock, an output whose
\* args are no lock) and then Tx2 (a witness whose lock is no unlock, an
\* input whose cell has args that are no lock) were fully processed on an
\* empty store, and both left rows
C7_Witness ==
    /\ prior.locks = {}
    /\ Len(intake) >= 2 /\ intake[1] = Tx1 /\ intake[2] = Tx2
    /\ tx.seq = 2 /\ Completed(2)
    /\ \E row \in lock_table : row.tx = Tx1.hash
    /\ \E row \in lock_table : row.tx = Tx2.hash
    /\ \E row \in unlock_table : row.tx = Tx1.hash
    /\ \E row \in unlock_table : row.tx = Tx2.hash

(***************************************************************************)
(* C8.  Re-delivery.  When a view is delivered again after it was fully    *)
(* processed, its second processing makes no insert: every existence check *)
(* the store answers finds the row, so no row is added or changed and no   *)
(* call can fail but by a failure of the store or of the resolver itself.  *)
(***************************************************************************)
C8_RedeliveryInsertsNothing ==
    \A p, q \in 1..Len(intake) :
        (p < q /\ intake[p] = intake[q] /\ Completed(p)) =>
            \A i \in 1..Len(calls) :
                calls[i].seq = q =>
                    /\ ~IsInsert(calls[i])
                    /\ (IsFind(calls[i]) /\ calls[i].ok) => calls[i].found

\* Tx2 was processed on an empty store, then another view, then Tx2 again,
\* to the end and without a failed call
C8_Witness ==
    /\ prior.locks = {}
    /\ Len(intake) = 3 /\ intake[1] = Tx2 /\ intake[2] = Tx3 /\ intake[3] = Tx2
    /\ Completed(3)
    /\ NumCalls("find_unlock", 3, Len(calls)) = 2
    /\ NumCalls("find_lock", 3, Len(calls)) = 3
    /\ \A row \in lock_table : row.tx \in { Tx2.hash, Tx3.hash }
    /\ \A row \in unlock_table : row.tx \in { Tx2.hash, Tx3.hash }

(***************************************************************************)
(* C9.  Extraction result.  On a store that was empty, when the first      *)
(* transaction is fully processed the store holds one unlock row for each  *)
(* distinct unlock_id among the unlock structures its witnesses wrap, one  *)
(* lock row for each distinct lock_id among the lock structures of its     *)
(* resolved inputs and of its outputs, and nothing else, each row with the *)
(* hash of the transaction; for Tx1 (one witness with an unlock, one input *)
(* with a lock, one output without) that is one row in each table.         *)
(***************************************************************************)
C9_ExtractionResult ==
    (prior.locks = {} /\ prior.unlocks = {} /\ tx.seq = 1 /\ Completed(1)) =>
        LET unlock_ids == { unlock_id(u) : u \in UnlocksIn(tx.view) }
            lock_ids == { lock_id(a) : a \in LocksIn(tx.view) }
        IN  /\ \A row \in unlock_table : row.tx = tx.view.hash
            /\ \A row \in lock_table : row.tx = tx.view.hash
            /\ { row.unlock_id : row \in unlock_table } = unlock_ids
            /\ Cardinality(unlock_table) = Cardinality(unlock_ids)
            /\ { row.lock_id : row \in lock_table } = lock_ids
            /\ Cardinality(lock_table) = Cardinality(lock_ids)
            /\ tx.view = Tx1 =>
                  Cardinality(unlock_table) = 1 /\ Cardinality(lock_table) = 1

\* Tx1 was the first transaction, on an empty store, and is fully processed
C9_Witness ==
    /\ prior.locks = {} /\ prior.unlocks = {}
    /\ tx.seq = 1 /\ tx.view = Tx1 /\ Completed(1)
    /\ lock_table # {} /\ unlock_table # {}

(***************************************************************************)
(* C10.  Graceful termination.  index() returns Ok only when the channel   *)
(* is closed and empty and every transaction sent was pulled and fully     *)
(* processed, with no failed call; and once the producer has closed the    *)
(* channel, index() eventually returns Ok unless a call fails.             *)
(***************************************************************************)
C10_OkOnlyAtEndOfStream ==
    result = "Ok" =>
        /\ ~open
        /\ queue = << >>
        /\ rgbpp_unlocks = << >> /\ locks = << >>
        /\ ~SomeCallFailed
        /\ \A n \in 1..Len(intake) :
              /\ NumCalls("next", n, Len(calls)) = 1
              /\ NumCalls("get_outputs", n, Len(calls)) = 1
              /\ NumCalls("find_unlock", n, Len(calls)) = NumUnlockCandidates(intake[n])
              /\ NumCalls("find_lock", n, Len(calls)) = NumLockCandidates(intake[n])

C10_ClosedLeadsToReturn == ~open ~> (result = "Ok" \/ SomeCallFailed)

\* C10: Ok only at the end of a closed and drained stream, and a closed
\* stream leads to the return of index()
C10_GracefulTermination == []C10_OkOnlyAtEndOfStream /\ C10_ClosedLeadsToReturn

\* index() returned Ok after two transactions that left rows in both tables
C10_Witness ==
    /\ result = "Ok"
    /\ Len(intake) = 2
    /\ lock_table # prior.locks
    /\ unlock_table # prior.unlocks

(***************************************************************************)
(* C11.  Bounded intake with backpressure.  The queue never holds more     *)
(* than 100 transactions; while it holds 100 no send completes, and the    *)
(* only step that changes it removes its oldest item; the queue is at all  *)
(* times the transactions sent and not yet pulled, in the order sent, so   *)
(* none is dropped or overwritten.                                         *)
(***************************************************************************)
C11_QueueIsTheUnpulled ==
    /\ Len(queue) <= ChannelCapacity
    /\ Len(queue) = Len(intake) - tx.seq
    /\ \A k \in 1..Len(queue) :
          queue[k] = [seq |-> tx.seq + k, view |-> intake[tx.seq + k]]

C11_FullQueueBlocksSend ==
    Len(queue) = ChannelCapacity =>
        /\ intake' = intake
        /\ queue' = queue \/ (queue' = Tail(queue) /\ tx' = Head(queue))

\* C11: at most ChannelCapacity queued, a full queue admits no send, nothing
\* queued is lost
C11_BoundedIntake == []C11_QueueIsTheUnpulled /\ [][C11_FullQueueBlocksSend]_vars

\* the producer sent more transactions than the channel holds and the queue
\* is full: the last send completed after the consumer had pulled an item
C11_Witness ==
    /\ Len(intake) > ChannelCapacity
    /\ Len(queue) = ChannelCapacity
    /\ tx.seq >= 1

(***************************************************************************)
(* C12.  out_index value.  The out_index of every row that is inserted is  *)
(* the unsigned 32-bit number of the little-endian bytes of the out_index  *)
(* field of the structure it is inserted for: it is not negative, its low  *)
(* 24 bits are the number of the first three bytes and the rest is the     *)
(* fourth byte.                                                            *)
(***************************************************************************)
\* x is the unsigned number the four little-endian bytes bs hold
IsUnsignedOf(x, bs) ==
    /\ x >= 0
    /\ x % Pow(256, 3) = FromLE(SubSeq(bs, 1, 3))
    /\ x \div Pow(256, 3) = bs[4]

C12_InsertedOutIndex ==
    \A row \in lock_table' \ lock_table :
        IsUnsignedOf(row.out_index, out_index(Head(locks)))

\* C12: every inserted out_index is the unsigned value of the field
C12_OutIndexIsUnsigned == [][C12_InsertedOutIndex]_vars

(***************************************************************************)
(* C13.  btc_txid byte order.  The btc_txid of every row that is inserted  *)
(* is the embedded btc_txid of the structure back to front: stored byte i  *)
(* is embedded byte 31 - i (counted from 0), so the stored value read back *)
(* to front is the embedded value; the lock_id of the row is taken from    *)
(* the bytes of the structure in their own order.                          *)
(***************************************************************************)
C13_InsertedTxid ==
    \A row \in lock_table' \ lock_table :
        LET lock == Head(locks)
            embedded == SubSeq(lock, Uint32Size + 1, Uint32Size + Byte32Size)
        IN  /\ Len(row.btc_txid) = Byte32Size
            /\ \A i \in 0..(Byte32Size - 1) :
                  row.btc_txid[i + 1] = embedded[(Byte32Size - 1 - i) + 1]
            /\ [i \in 1..Byte32Size |-> row.btc_txid[Byte32Size + 1 - i]] = embedded
            /\ row.lock_id # << >>
            /\ \E from \in 1..Len(lock) :
                  row.lock_id = SubSeq(lock, from, from + Len(row.lock_id) - 1)

\* C13: the stored btc_txid is the embedded one reversed, the lock_id is not
C13_TxidIsReversed == [][C13_InsertedTxid]_vars

\* rows were inserted for two locks with different btc_txid, and in each the
\* stored btc_txid differs from the bytes the lock_id was taken from
C13_Witness ==
    /\ prior.locks = {}
    /\ Cardinality(lock_table) >= 2
    /\ \A row \in lock_table : row.btc_txid # row.lock_id

(***************************************************************************)
(* C14.  Two-writer race.  With two instances on one store, both can find  *)
(* an identifier absent before either inserts it; the insert that comes    *)
(* second is then issued for an identifier that is present, and it either  *)
(* fails, which makes index() of that instance return the error, or leaves *)
(* a second row with the identifier.                                       *)
(***************************************************************************)
C14_InsertOfPresentId ==
    /\ (pc = "insert_lock" /\ pc' # pc /\ LockRowsOf(lock_id(Head(locks))) # {}) =>
          \/ result' = "DbErr" /\ lock_table' = lock_table
          \/ Cardinality({ row \in lock_table' : row.lock_id = lock_id(Head(locks)) }) > 1
    /\ (pc = "insert_unlock" /\ pc' # pc
            /\ UnlockRowsOf(unlock_id(Head(rgbpp_unlocks))) # {}) =>
          \/ result' = "DbErr" /\ unlock_table' = unlock_table
          \/ Cardinality({ row \in unlock_table' :
                              row.unlock_id = unlock_id(Head(rgbpp_unlocks)) }) > 1
    /\ (peer.pc = "insert_lock" /\ peer' # peer /\ LockRowsOf(lock_id(peer.item)) # {}) =>
          \/ peer'.pc = "returned" /\ lock_table' = lock_table
          \/ Cardinality({ row \in lock_table' : row.lock_id = lock_id(peer.item) }) > 1
    /\ (peer.pc = "insert_unlock" /\ peer' # peer
            /\ UnlockRowsOf(unlock_id(peer.item)) # {}) =>
          \/ peer'.pc = "returned" /\ unlock_table' = unlock_table
          \/ Cardinality({ row \in unlock_table' :
                              row.unlock_id = unlock_id(peer.item) }) > 1

\* C14: an insert issued for an identifier that is present fails and aborts
\* its instance, or leaves a duplicate row
C14_TwoWriterRace == [][C14_InsertOfPresentId]_vars

\* index() found a lock_id absent, the second instance, which had found it
\* absent too, inserted its row, and the insert of index() then failed on
\* the identifier
C14_Witness ==
    /\ result = "DbErr"
    /\ Len(calls) >= 2
    /\ Last(calls).call = "insert_lock"
    /\ LET find == calls[Len(calls) - 1]
       IN  /\ find.call = "find_lock" /\ find.ok /\ ~find.found
           /\ find.id = Last(calls).id
    /\ \E row \in LockRowsOf(Last(calls).id) : row.tx = PeerTx

(***************************************************************************)
(* C15.  Gather before persist.  Every existence check and every insert    *)
(* made for a transaction comes after the resolver call of that            *)
(* transaction has returned Ok, that is, after the unlock candidates and   *)
(* the lock candidates of the transaction are both gathered.               *)
(***************************************************************************)
C15_GatherBeforePersist ==
    \A i \in 1..Len(calls) :
        (IsFind(calls[i]) \/ IsInsert(calls[i])) =>
            \E j \in 1..(i - 1) :
                /\ calls[j].call = "get_outputs"
                /\ calls[j].seq = calls[i].seq
                /\ calls[j].ok

(***************************************************************************)
(* C16.  Persist order inside one transaction.  The existence checks made  *)
(* for a transaction are, in the order made: one for each unlock its       *)
(* witnesses wrap, in witness order, then one for each lock of its         *)
(* resolved inputs, in input order, then one for each lock of its outputs, *)
(* in output order.  An insert follows at once the existence check that    *)
(* found its identifier absent, and no other call comes between the two:   *)
(* a persist call is over when the next one starts.                        *)
(***************************************************************************)
\* the structures a view holds, by position, told by encoding the
\* structures of the model
RECURSIVE ExpectedUnlocks(_)
ExpectedUnlocks(witnesses) ==
    IF witnesses = << >> THEN << >>
    ELSE (IF \E u \in UnlockStructs : Wraps(Head(witnesses), u)
          THEN << CHOOSE u \in UnlockStructs : Wraps(Head(witnesses), u) >>
          ELSE << >>)
         \o ExpectedUnlocks(Tail(witnesses))

RECURSIVE ExpectedLocksOf(_)
ExpectedLocksOf(cells) ==
    IF cells = << >> THEN << >>
    ELSE (IF Head(cells).lock.args \in LockStructs
          THEN << Head(cells).lock.args >>
          ELSE << >>)
         \o ExpectedLocksOf(Tail(cells))

ExpectedLocks(view) ==
    ExpectedLocksOf([i \in 1..Len(view.inputs) |-> CellAt(view.inputs[i].previous_output)])
    \o ExpectedLocksOf(view.outputs)

\* the existence checks a view is to get, in order
ExpectedFinds(view) ==
    LET unlocks == ExpectedUnlocks(view.witnesses)
        pooled == ExpectedLocks(view)
    IN  [i \in 1..Len(unlocks) |-> [call |-> "find_unlock", id |-> unlock_id(unlocks[i])]]
        \o [i \in 1..Len(pooled) |-> [call |-> "find_lock", id |-> lock_id(pooled[i])]]

\* the existence checks made so far for the transaction with place n
FindsOf(n) ==
    LET made == SelectSeq(calls, LAMBDA c : IsFind(c) /\ c.seq = n)
    IN  [i \in 1..Len(made) |-> [call |-> made[i].call, id |-> made[i].id]]

C16_PersistOrder ==
    /\ \A n \in 1..tx.seq :
          LET made == FindsOf(n)
              expected == ExpectedFinds(intake[n])
          IN  /\ Len(made) <= Len(expected)
              /\ made = SubSeq(expected, 1, Len(made))
              /\ Completed(n) => made = expected
    /\ \A i \in 1..Len(calls) :
          /\ IsInsert(calls[i]) =>
                /\ i > 1
                /\ calls[i - 1].call =
                       (IF calls[i].call = "insert_lock" THEN "find_lock" ELSE "find_unlock")
                /\ calls[i - 1].id = calls[i].id
                /\ calls[i - 1].seq = calls[i].seq
                /\ calls[i - 1].ok /\ ~calls[i - 1].found
          /\ (IsFind(calls[i]) /\ calls[i].ok /\ ~calls[i].found /\ i < Len(calls)) =>
                IsInsert(calls[i + 1])

\* Tx2 (two unlocks, a lock in a resolved input, two locks in the outputs)
\* is fully processed on a store that was empty
C16_Witness ==
    /\ prior.locks = {}
    /\ tx.seq >= 1 /\ tx.view = Tx2 /\ Completed(tx.seq)
    /\ Len(FindsOf(tx.seq)) = Len(Tx2.witnesses) - 1 + Len(Tx2.inputs) - 1 + Len(Tx2.outputs)
    /\ \E i \in 1..Len(calls) : calls[i].call = "insert_lock" /\ calls[i].seq = tx.seq

(***************************************************************************)
(* C17.  Determinism under parallel decode.  Whatever order the pool       *)
(* finishes the decode steps in, the store after a transaction is fully    *)
(* processed without a failed call is the one a fixed computation gives    *)
(* from the store at construction and the transactions pulled so far:      *)
(* candidates taken in witness, input and output order, the first          *)
(* candidate with an identifier giving the row.  index() returns Ok        *)
(* exactly when it returns without a failed call.                          *)
(***************************************************************************)
RECURSIVE RefLocks(_, _, _)
RefLocks(table, pooled, hash) ==
    IF pooled = << >> THEN table
    ELSE RefLocks(IF \E row \in table : row.lock_id = lock_id(Head(pooled))
                  THEN table
                  ELSE table \cup { LockRow(Head(pooled), hash) },
                  Tail(pooled), hash)

RECURSIVE RefUnlocks(_, _, _)
RefUnlocks(table, unlocks, hash) ==
    IF unlocks = << >> THEN table
    ELSE RefUnlocks(IF \E row \in table : row.unlock_id = unlock_id(Head(unlocks))
                    THEN table
                    ELSE table \cup { UnlockRow(Head(unlocks), hash) },
                    Tail(unlocks), hash)

\* the store after the views are processed one after the other
RECURSIVE RefStore(_, _)
RefStore(store, views) ==
    IF views = << >> THEN store
    ELSE RefStore([locks   |-> RefLocks(store.locks, ExpectedLocks(Head(views)),
                                        Head(views).hash),
                   unlocks |-> RefUnlocks(store.unlocks,
                                          ExpectedUnlocks(Head(views).witnesses),
                                          Head(views).hash)],
                  Tail(views))

C17_DeterministicStore ==
    /\ (tx.seq >= 1 /\ Completed(tx.seq) /\ ~SomeCallFailed) =>
          [locks |-> lock_table, unlocks |-> unlock_table]
              = RefStore(prior, SubSeq(intake, 1, tx.seq))
    /\ pc \in { "find_unlock", "insert_unlock" } =>
          \E k \in 0..Len(tx.view.witnesses) :
              rgbpp_unlocks = CollectUnlocks(SubSeq(tx.view.witnesses, k + 1,
                                                    Len(tx.view.witnesses)))
    /\ result # "none" => (result = "Ok" <=> ~SomeCallFailed)

\* Tx5, whose outputs hold two locks with one lock_id, is fully processed
\* after another transaction, on a store that was empty
C17_Witness ==
    /\ prior.locks = {}
    /\ tx.seq = 2 /\ tx.view = Tx5 /\ intake[1] = Tx3
    /\ Completed(2) /\ ~SomeCallFailed
    /\ \E row \in lock_table : row.tx = Tx5.hash
    /\ result = "Ok"

(***************************************************************************)
(* C18.  Single-writer uniqueness.  With one instance writing, an insert   *)
(* is only ever issued for an identifier no row has, so each table holds   *)
(* at most one row per identifier and an insert that fails does not fail   *)
(* on its key; also when one transaction holds a structure several times.  *)
(***************************************************************************)
C18_SingleWriterUnique ==
    /\ pc = "insert_lock" => LockRowsOf(lock_id(Head(locks))) = {}
    /\ pc = "insert_unlock" => UnlockRowsOf(unlock_id(Head(rgbpp_unlocks))) = {}
    /\ \A row \in lock_table : Cardinality(LockRowsOf(row.lock_id)) = 1
    /\ \A row \in unlock_table : Cardinality(UnlockRowsOf(row.unlock_id)) = 1
    /\ \A i \in 1..Len(calls) :
          /\ (calls[i].call = "insert_lock" /\ ~calls[i].ok) => LockRowsOf(calls[i].id) = {}
          /\ (calls[i].call = "insert_unlock" /\ ~calls[i].ok)
                => UnlockRowsOf(calls[i].id) = {}

\* one transaction held the same unlock in two witnesses and the same lock
\* in a resolved input and in an output: each was inserted at its first
\* occurrence and found at its second
C18_Witness ==
    /\ \E i, j \in 1..Len(calls) :
          /\ i < j /\ calls[i].seq = calls[j].seq
          /\ calls[i].call = "insert_unlock" /\ calls[i].ok
          /\ calls[j].call = "find_unlock" /\ calls[j].found
          /\ calls[i].id = calls[j].id
    /\ \E i, j \in 1..Len(calls) :
          /\ i < j /\ calls[i].seq = calls[j].seq
          /\ calls[i].call = "insert_lock" /\ calls[i].ok
          /\ calls[j].call = "find_lock" /\ calls[j].found
          /\ calls[i].id = calls[j].id
          /\ intake[calls[i].seq] = Tx3

(***************************************************************************)
(* C19.  Restart convergence.  When index() returned an error while a      *)
(* transaction was processed and a new pipeline is run on the same store   *)
(* with the stream restarted at that transaction, the second run issues no *)
(* insert for a row the first run left, and once a transaction is fully    *)
(* processed, and when index() returns Ok, the store is the one a run      *)
(* without any failure has at that point, row for row.                     *)
(***************************************************************************)
C19_RestartConverges ==
    /\ (tx.seq >= 1 /\ Completed(tx.seq) /\ Last(calls).ok) =>
          [locks |-> lock_table, unlocks |-> unlock_table]
              = RefStore(prior, SubSeq(intake, 1, tx.seq))
    /\ result = "Ok" =>
          [locks |-> lock_table, unlocks |-> unlock_table] = RefStore(prior, intake)
    /\ pc = "insert_lock" => LockRowsOf(lock_id(Head(locks))) = {}
    /\ pc = "insert_unlock" => UnlockRowsOf(unlock_id(Head(rgbpp_unlocks))) = {}

\* the resolver failed for a transaction after an unlock row of it was
\* inserted, the pipeline was run again from that transaction, found the
\* row, inserted a lock row and went on to return Ok
C19_Witness ==
    /\ result = "Ok"
    /\ \E i, j, k, m \in 1..Len(calls) :
          /\ i < j /\ j < k /\ k < m
          /\ calls[i].call = "insert_unlock" /\ calls[i].ok
          /\ calls[j].call = "get_outputs" /\ ~calls[j].ok
          /\ calls[k].call = "find_unlock" /\ calls[k].found
          /\ calls[m].call = "insert_lock" /\ calls[m].ok
          /\ calls[i].seq = calls[j].seq
          /\ calls[k].seq = calls[j].seq
          /\ calls[m].seq = calls[j].seq
          /\ calls[k].id = calls[i].id

====
